---- MODULE Spec2Model ----
(***************************************************************************)
(* Model of mala/descriptors/descriptor.py (class Descriptor):             *)
(*   - _setup_lammps_processors : the LAMMPS processor grid and the        *)
(*     balance cuts along y and z,                                         *)
(*   - gather_descriptors       : the MPI gather of the per-rank blocks    *)
(*     and their reassembly on rank 0,                                     *)
(*   - _calculate_cosine_similarities / _calculate_acsd.                   *)
(* Each part has its own specification (SpecPlan, SpecGather, SpecAcsd);   *)
(* the variables of the other parts stay at their idle value.              *)
(* SpecGatherTwice lets every rank call gather_descriptors a second time,  *)
(* FairSpecRawGather is the Send/Recv route under fair scheduling.         *)
(***************************************************************************)
EXTENDS Integers, Sequences, FiniteSets, TLC

VARIABLES
    plan_in,        \* arguments and configuration of _setup_lammps_processors
    lammps_dict,    \* its outcome: status "pending" before the call
    \* gather_descriptors, one process per MPI rank
    grid_dimensions,          \* self.grid_dimensions = <<nx, ny, nz>>
    fingerprint_length,       \* self.fingerprint_length
    descriptors_contain_xyz,  \* self.parameters.descriptors_contain_xyz
    use_pickled_comm,         \* the argument use_pickled_comm
    eager_send,               \* whether MPI buffers a standard-mode Send
    snap_descriptors_np,      \* rank -> its local block (a sequence of rows)
    pc,                       \* rank -> where it is in gather_descriptors
    gathered,                 \* rank -> its contribution to comm.gather
    msgs,                     \* point-to-point messages in flight
    sendcounts,               \* rank 0: the gathered row counts
    all_descriptors_list,     \* rank 0: rank -> received block
    recv_i,                   \* rank 0: loop index of the Recv loop
    descriptors_full,         \* rank 0: the assembled array, cell -> vector
    writes,                   \* rank 0: cell -> number of blocks written to it
    ret,                      \* rank -> what gather_descriptors returned
    call,                     \* rank -> the call of gather_descriptors it is in
    first_ret,                \* rank 0: what its first call returned
    \* _calculate_acsd
    acsd_in,            \* descriptor_data, ldos_data, acsd_points, the xyz flag
    points_i,           \* the permutation drawn before the outer loop
    loop_i,             \* the outer loop index i
    similarity_array,   \* the pairs [descriptor_distance, ldos_distance]
    acsd_ret            \* the outcome of _calculate_acsd

plan_vars == <<plan_in, lammps_dict>>

gather_vars ==
    <<grid_dimensions, fingerprint_length, descriptors_contain_xyz,
      use_pickled_comm, eager_send, snap_descriptors_np, pc, gathered, msgs,
      sendcounts, all_descriptors_list, recv_i, descriptors_full, writes, ret,
      call, first_ret>>

acsd_vars == <<acsd_in, points_i, loop_i, similarity_array, acsd_ret>>

vars == <<plan_vars, gather_vars, acsd_vars>>

(***************************************************************************)
(* Bounds of the model.                                                    *)
(***************************************************************************)
MaxPlanes == 5      \* ny, nz of the planner range over 1..MaxPlanes
MaxSize == 6        \* get_size() of the planner ranges over 1..MaxSize
MaxNx == 2          \* nx ranges over 1..MaxNx
MaxNy == 2          \* ny of a gather ranges over 1..MaxNy
MaxNz == 2          \* nz of a gather ranges over 1..MaxNz
MaxRanks == 2       \* get_size() of a gather ranges over 1..MaxRanks
MaxF == 4           \* fingerprint_length of a gather is 1 or MaxF
MaxPoints == 2      \* rows of descriptor_data and of ldos_data: 1..MaxPoints
MaxSample == 2      \* acsd_points ranges over 1..MaxSample

(***************************************************************************)
(* format(v, ".8f") yields a decimal with eight digits: cut values are     *)
(* integers counting units of 1e-8.                                        *)
(***************************************************************************)
E8 == 100000000

\* format(num/den - 0.00000001, ".8f"), in units of 1e-8: the exact value is
\* (num*E8 - den)/den units, rounded to the nearest unit (no value within the
\* bounds lies on a rounding tie, where the float error could matter).
FormatCut(num, den) ==
    LET t == num * E8 - den
        q == t \div den
        r == t % den
    IN  IF 2 * r >= den THEN q + 1 ELSE q

\* zprocs = int(size/yprocs)
ZProcsForgetY(size, yprocs) == size
ZProcsFor(size, yprocs) == size \div yprocs

\* if size % yprocs == 0: ... else: raise ValueError
NotDivisibleSwapped(size, yprocs) == yprocs % size # 0
NotDivisible(size, yprocs) == size % yprocs # 0

\* int(n / procs) == (n / procs)
DividesEvenly(n, procs) == (n \div procs) * procs = n

\* y cuts, even branch: yvals = ((i+1)*ycut) - 1e-8, ycut = 1/yprocs
YCutsEven(yprocs) == [k \in 1..(yprocs - 1) |-> FormatCut(k, yprocs)]

\* y cuts, remainder branch: two loops, i in 0..yrem-1 and i in yrem..yprocs-2
YCutsUneven(ny, yprocs) ==
    LET yrem == ny - (yprocs * (ny \div yprocs))
        first == [k \in 1..yrem |-> FormatCut(k * 2, yprocs)]
        second == [k \in 1..(yprocs - 1 - yrem) |->
                      FormatCut(k + yrem + yrem, yprocs)]
    IN  first \o second

\* z cuts, even branch: zvals = ((i+1)*(nz/zprocs)*zcut) - 1e-8, zcut = 1/nz
ZCutsEven(nz, zprocs) ==
    [k \in 1..(zprocs - 1) |-> FormatCut(k * (nz \div zprocs), nz)]

\* z cuts of the y-and-z mode (its own copy of the even loop); the variant
\* steps by two planes as the loop left commented out in that branch does
ZCutsEvenYZDoubled(nz, zprocs) ==
    [k \in 1..(zprocs - 1) |-> FormatCut(k * 2, nz)]
ZCutsEvenYZ(nz, zprocs) ==
    [k \in 1..(zprocs - 1) |-> FormatCut(k * (nz \div zprocs), nz)]

\* z cuts, remainder branch of the z-only mode
ZCutsUnevenNoRem(nz, zprocs) ==
    [k \in 1..(zprocs - 1) |-> FormatCut(k * (nz \div zprocs), nz)]
ZCutsUneven(nz, zprocs) ==
    LET base == nz \div zprocs
        zrem == nz - (zprocs * base)
        first == [k \in 1..zrem |-> FormatCut(k * (base + 1), nz)]
        second == [k \in 1..(zprocs - 1 - zrem) |->
                      FormatCut((k + zrem) * base + zrem, nz)]
    IN  first \o second

\* if nz < size: raise ValueError (z-only mode)
MoreProcsThanPlanesOffByOne(nz, size) == nz <= size
MoreProcsThanPlanes(nz, size) == nz < size

\* The outcome of a call: the exception raised or the returned dictionary,
\* with the processor counts and the cut lists computed up to that point.
PlanResult(status, mode, yprocs, zprocs, yint, zint) ==
    [status |-> status, mode |-> mode, yprocs |-> yprocs, zprocs |-> zprocs,
     yint |-> yint, zint |-> zint]

\* the branch use_y_splitting > 1
SetupYZ(p) ==
    LET yprocs == p.use_y_splitting
        zprocs == ZProcsFor(p.size, yprocs)
        yint == IF DividesEvenly(p.ny, yprocs)
                THEN YCutsEven(yprocs) ELSE YCutsUneven(p.ny, yprocs)
    IN  IF NotDivisible(p.size, yprocs)
        THEN PlanResult("ValueError", "yz", yprocs, 0, <<>>, <<>>)
        ELSE IF yprocs * zprocs < p.size
        THEN PlanResult("ValueError", "yz", yprocs, zprocs, <<>>, <<>>)
        ELSE IF ~DividesEvenly(p.nz, zprocs)
        THEN PlanResult("ValueError", "yz", yprocs, zprocs, yint, <<>>)
        ELSE PlanResult("ok", "yz", yprocs, zprocs, yint,
                        ZCutsEvenYZ(p.nz, zprocs))

\* the branch use_z_splitting
SetupZ(p) ==
    LET zprocs == p.size
    IN  IF MoreProcsThanPlanes(p.nz, p.size)
        THEN PlanResult("ValueError", "z", 1, zprocs, <<>>, <<>>)
        ELSE PlanResult("ok", "z", 1, zprocs, <<>>,
                        IF DividesEvenly(p.nz, zprocs)
                        THEN ZCutsEven(p.nz, zprocs)
                        ELSE ZCutsUneven(p.nz, zprocs))

setup_lammps_processors(p) ==
    IF p.mpi
    THEN IF p.use_y_splitting > 1
         THEN SetupYZ(p)
         ELSE IF p.use_z_splitting
              THEN SetupZ(p)
              ELSE PlanResult("ok", "none", 1, 1, <<>>, <<>>)
    ELSE PlanResult("ok", "none", 1, 1, <<>>, <<>>)

PlanInputs ==
    [nx : 1..MaxNx, ny : 1..MaxPlanes, nz : 1..MaxPlanes, size : 1..MaxSize,
     mpi : BOOLEAN, use_y_splitting : 0..MaxSize, use_z_splitting : BOOLEAN]

\* The gather is not running.
GatherIdle ==
    /\ grid_dimensions = <<0, 0, 0>>
    /\ fingerprint_length = 0
    /\ descriptors_contain_xyz = FALSE
    /\ use_pickled_comm = FALSE
    /\ eager_send = FALSE
    /\ snap_descriptors_np = <<>>
    /\ pc = <<>>
    /\ gathered = <<>>
    /\ msgs = {}
    /\ sendcounts = <<>>
    /\ all_descriptors_list = <<>>
    /\ recv_i = 0
    /\ descriptors_full = <<>>
    /\ writes = <<>>
    /\ ret = <<>>
    /\ call = <<>>
    /\ first_ret = <<>>

\* No ACSD is being calculated.
AcsdIdle ==
    /\ acsd_in = <<>>
    /\ points_i = <<>>
    /\ loop_i = 0
    /\ similarity_array = <<>>
    /\ acsd_ret = [status |-> "idle", distances |-> <<>>, acsd |-> "none"]

PlanInit ==
    /\ plan_in \in PlanInputs
    /\ lammps_dict = PlanResult("pending", "none", 0, 0, <<>>, <<>>)
    /\ GatherIdle
    /\ AcsdIdle

SetupLammpsProcessors ==
    /\ lammps_dict.status = "pending"
    /\ lammps_dict' = setup_lammps_processors(plan_in)
    /\ UNCHANGED <<plan_in, gather_vars, acsd_vars>>

PlanNext == SetupLammpsProcessors

SpecPlan == PlanInit /\ [][PlanNext]_vars

(***************************************************************************)
(* The domains LAMMPS derives from a plan ("processors 1 yprocs zprocs map *)
(* xyz" and "balance 1.0 y ... z ..."): processor p (1-based) of an axis   *)
(* owns the planes k whose position k/n lies in [cut[p-1], cut[p]), with   *)
(* 0 below the first and 1 above the last processor.                       *)
(***************************************************************************)
CutLo(cuts, p) == IF p = 1 THEN 0 ELSE cuts[p - 1]
CutHi(cuts, procs, p) == IF p = procs THEN E8 ELSE cuts[p]

PlanesOf(cuts, procs, n, p) ==
    {k \in 0..(n - 1) :
        /\ CutLo(cuts, p) * n <= k * E8
        /\ k * E8 < CutHi(cuts, procs, p) * n}

\* rank r of "map xyz" on a 1 x yprocs x zprocs grid: y index r mod yprocs,
\* z index r div yprocs
DomainOf(d, p, r) ==
    {<<x, y, z>> \in (0..(p.nx - 1)) \X (0..(p.ny - 1)) \X (0..(p.nz - 1)) :
        /\ y \in PlanesOf(d.yint, d.yprocs, p.ny, (r % d.yprocs) + 1)
        /\ (r \div d.yprocs) + 1 <= d.zprocs
        /\ z \in PlanesOf(d.zint, d.zprocs, p.nz, (r \div d.yprocs) + 1)}

Called == lammps_dict.status # "pending"
Planned == Called /\ lammps_dict.status = "ok"
ZOnlyRequested ==
    plan_in.mpi /\ plan_in.use_y_splitting <= 1 /\ plan_in.use_z_splitting
YAndZRequested == plan_in.mpi /\ plan_in.use_y_splitting > 1

GridCells(p) == (0..(p.nx - 1)) \X (0..(p.ny - 1)) \X (0..(p.nz - 1))
OwnersOf(c) ==
    {r \in 0..(plan_in.size - 1) : c \in DomainOf(lammps_dict, plan_in, r)}
ZPlaneCount(p) ==
    Cardinality(PlanesOf(lammps_dict.zint, lammps_dict.zprocs, plan_in.nz, p))
YPlaneCount(p) ==
    Cardinality(PlanesOf(lammps_dict.yint, lammps_dict.yprocs, plan_in.ny, p))
RECURSIVE SumZPlanes(_)
SumZPlanes(p) == IF p = 0 THEN 0 ELSE ZPlaneCount(p) + SumZPlanes(p - 1)

\* C2: for every plan returned without error in the z-only or the y-and-z
\* mode, every cell of the grid lies in the domain of exactly one rank.
C2_TilesExactlyOnce ==
    (Planned /\ lammps_dict.mode \in {"z", "yz"}) =>
        \A c \in GridCells(plan_in) : Cardinality(OwnersOf(c)) = 1

C2_Witness ==
    /\ Planned
    /\ lammps_dict.mode = "yz"
    /\ lammps_dict.zprocs >= 2
    /\ ~DividesEvenly(plan_in.ny, lammps_dict.yprocs)
    /\ plan_in.ny > lammps_dict.yprocs
    /\ plan_in.nx >= 2

\* C4: in the z-only mode with nz >= size, the plane counts of the zprocs =
\* size processors sum to nz, and processor p owns base+1 planes when it is
\* among the first (nz mod zprocs) and base planes otherwise.
C4_ZOnlyPlaneCounts ==
    (Planned /\ lammps_dict.mode = "z") =>
        LET zprocs == lammps_dict.zprocs
            base == plan_in.nz \div zprocs
            rem == plan_in.nz % zprocs
        IN  /\ plan_in.nz >= plan_in.size
            /\ zprocs = plan_in.size
            /\ Len(lammps_dict.zint) = zprocs - 1
            /\ SumZPlanes(zprocs) = plan_in.nz
            /\ \A p \in 1..zprocs :
                   ZPlaneCount(p) = IF p <= rem THEN base + 1 ELSE base

C4_Witness ==
    /\ Planned
    /\ lammps_dict.mode = "z"
    /\ lammps_dict.zprocs = 3
    /\ plan_in.nz % 3 = 1
    /\ plan_in.nz > 3

\* C5: a z-only call fails when nz < size, and with nz = size it returns a
\* plan in which every processor owns exactly one z plane.
C5_ZOnlyBoundary ==
    (Called /\ ZOnlyRequested) =>
        /\ plan_in.nz < plan_in.size => lammps_dict.status = "ValueError"
        /\ plan_in.nz = plan_in.size =>
              /\ lammps_dict.status = "ok"
              /\ lammps_dict.zprocs = plan_in.size
              /\ \A p \in 1..plan_in.size : ZPlaneCount(p) = 1

C5_Witness ==
    /\ Planned
    /\ ZOnlyRequested
    /\ plan_in.nz = plan_in.size
    /\ plan_in.size >= 3

\* C6 (as claimed): a y-and-z call fails whenever an axis has fewer planes
\* than processors (ny < yprocs or nz < zprocs).
C6_FailsWhenMoreProcsThanPlanes ==
    (Called /\ YAndZRequested /\ ~NotDivisible(plan_in.size,
                                               plan_in.use_y_splitting)
        /\ (\/ plan_in.ny < plan_in.use_y_splitting
            \/ plan_in.nz < plan_in.size \div plan_in.use_y_splitting)) =>
        lammps_dict.status = "ValueError"

\* C7: a y-and-z call fails when use_y_splitting does not divide size;
\* otherwise yprocs = use_y_splitting, zprocs = size / yprocs and
\* yprocs * zprocs = size.
C7_YSplitDividesSize ==
    (Called /\ YAndZRequested) =>
        IF plan_in.size % plan_in.use_y_splitting # 0
        THEN lammps_dict.status = "ValueError"
        ELSE /\ lammps_dict.yprocs = plan_in.use_y_splitting
             /\ lammps_dict.zprocs * plan_in.use_y_splitting = plan_in.size
             /\ lammps_dict.yprocs * lammps_dict.zprocs = plan_in.size

C7_Witness ==
    /\ Planned
    /\ YAndZRequested
    /\ lammps_dict.yprocs = 2
    /\ lammps_dict.zprocs = 2

\* C15 (as claimed): in the y-and-z mode with ny >= yprocs and ny not
\* divisible by yprocs, the first (ny mod yprocs) y processors own
\* (ny div yprocs) + 1 planes, the others (ny div yprocs) planes, and no y
\* processor owns zero planes.
C15_YRemainderFrontLoaded ==
    (Planned /\ lammps_dict.mode = "yz"
        /\ plan_in.ny >= lammps_dict.yprocs
        /\ plan_in.ny % lammps_dict.yprocs # 0) =>
        LET base == plan_in.ny \div lammps_dict.yprocs
            rem == plan_in.ny % lammps_dict.yprocs
        IN  \A p \in 1..lammps_dict.yprocs :
                /\ YPlaneCount(p) = IF p <= rem THEN base + 1 ELSE base
                /\ YPlaneCount(p) > 0

\* the plan the z-only mode computes for zprocs processors
ZOnlyPlanFor(zprocs) == SetupZ([plan_in EXCEPT !.size = zprocs])

\* C16 (as claimed): for every nz >= zprocs, divisible by zprocs or not, a
\* y-and-z call returns a plan whose z cuts are those the z-only mode
\* computes for (nz, zprocs).
C16_ZCutsAsZOnly ==
    (Called /\ YAndZRequested
        /\ ~NotDivisible(plan_in.size, plan_in.use_y_splitting)
        /\ plan_in.nz >= plan_in.size \div plan_in.use_y_splitting) =>
        /\ lammps_dict.status = "ok"
        /\ lammps_dict.zint =
               ZOnlyPlanFor(plan_in.size \div plan_in.use_y_splitting).zint

\* C16 (amended): a y-and-z call whose use_y_splitting divides size returns,
\* when zprocs divides nz, a plan whose z cuts are those the z-only mode
\* returns for (nz, zprocs), and fails with ValueError when zprocs does not
\* divide nz.
C16_ZCutsAsZOnlyWhenDivisible ==
    (Called /\ YAndZRequested
        /\ ~NotDivisible(plan_in.size, plan_in.use_y_splitting)) =>
        LET zprocs == plan_in.size \div plan_in.use_y_splitting
        IN  IF plan_in.nz % zprocs = 0
            THEN /\ lammps_dict.status = "ok"
                 /\ lammps_dict.zprocs = zprocs
                 /\ ZOnlyPlanFor(zprocs).status = "ok"
                 /\ lammps_dict.zint = ZOnlyPlanFor(zprocs).zint
            ELSE lammps_dict.status = "ValueError"

C16_Witness ==
    /\ Planned
    /\ YAndZRequested
    /\ lammps_dict.zprocs = 3
    /\ plan_in.nz = 3
    /\ Len(lammps_dict.zint) = 2
    /\ lammps_dict.zint = ZOnlyPlanFor(3).zint

\* procs - 1 cuts, each strictly between 0 and 1, strictly increasing
CutsWellFormed(cuts, procs) ==
    /\ Len(cuts) = procs - 1
    /\ \A k \in DOMAIN cuts : 0 < cuts[k] /\ cuts[k] < E8
    /\ \A k \in DOMAIN cuts : k > 1 => cuts[k - 1] < cuts[k]

\* C17 (as claimed): in every plan returned without error, each partitioned
\* axis has (processor count - 1) cuts, every cut lies strictly between 0
\* and 1, and the cuts are strictly increasing.
C17_CutsWellFormed ==
    (Planned /\ lammps_dict.mode \in {"z", "yz"}) =>
        /\ CutsWellFormed(lammps_dict.yint, lammps_dict.yprocs)
        /\ CutsWellFormed(lammps_dict.zint, lammps_dict.zprocs)

(***************************************************************************)
(* gather_descriptors.                                                     *)
(*                                                                         *)
(* An array of shape (nx, ny, nz, F) is a function from the cells          *)
(* <<x, y, z>> to vectors of length F; a local block is a sequence of      *)
(* rows, each the three grid coordinates followed by the feature values.   *)
(***************************************************************************)
TagBase == 100

\* tag=get_rank()+100 of the Send, tag=100+i of the Recv; the variant is off
\* by one
SendTag(rank) == rank + TagBase
RecvTagOffByOne(i) == TagBase + i + 1
RecvTag(i) == TagBase + i

Ranks == DOMAIN pc
Cells(dims) == (0..(dims[1] - 1)) \X (0..(dims[2] - 1)) \X (0..(dims[3] - 1))
Zeros(n) == [c \in 1..n |-> 0]

\* raw_feature_length = self.fingerprint_length+3
raw_feature_length == fingerprint_length + 3

\* descriptors_full = np.zeros([1, 1, 1, 1])
Dummy == [c \in {<<0, 0, 0>>} |-> Zeros(1)]

\* the buffer comm.Send transmits: the rows of the C-ordered array, in order
RECURSIVE Flatten(_)
Flatten(rows) ==
    IF rows = <<>> THEN <<>> ELSE rows[1] \o Flatten(Tail(rows))

\* np.reshape(buffer, (n, w)); the variant reads the buffer column by column
UnflattenColumnMajor(buf, n, w) ==
    [k \in 1..n |-> [c \in 1..w |-> buf[(c - 1) * n + k]]]
Unflatten(buf, n, w) == [k \in 1..n |-> SubSeq(buf, (k - 1) * w + 1, k * w)]

RECURSIVE Product(_)
Product(shape) ==
    IF shape = <<>> THEN 1 ELSE shape[1] * Product(Tail(shape))

\* np.reshape(a, shape) for an array of `total` elements: the shape obtained
\* (one entry -1 is inferred), or <<>> when numpy raises ValueError.
ReshapeShape(total, shape) ==
    LET unknown == {i \in DOMAIN shape : shape[i] = -1}
        known == [i \in DOMAIN shape |-> IF shape[i] = -1 THEN 1 ELSE shape[i]]
        prod == Product(known)
    IN  IF \E i \in DOMAIN shape : shape[i] < -1 THEN <<>>
        ELSE IF Cardinality(unknown) > 1 THEN <<>>
        ELSE IF Cardinality(unknown) = 1
        THEN IF prod = 0 \/ total % prod # 0 THEN <<>>
             ELSE [i \in DOMAIN shape |->
                      IF shape[i] = -1 THEN total \div prod ELSE shape[i]]
        ELSE IF prod = total THEN shape ELSE <<>>

\* The row of the block that element [ix][iy][iz] of
\* np.reshape(.., [sz, sy, sx, F]).transpose([2, 1, 0, 3]) comes from (0-based).
SourceRowNoTranspose(ix, iy, iz, sx, sy, sz) == (ix * sy + iy) * sz + iz
SourceRow(ix, iy, iz, sx, sy, sz) == (iz * sy + iy) * sx + ix

\* length of the slice first:last of an axis of n entries
SliceLen(first, last, n) ==
    LET start == IF first < n THEN first ELSE n
        stop == IF last < n THEN last ELSE n
    IN  IF stop > start THEN stop - start ELSE 0

Result(status, full, wr) == [status |-> status, full |-> full, writes |-> wr]

\* The debugging loop kept in the source as a comment:
\* for entry in local_grid: descriptors_full[x, y, z] = entry[3:]
AssignBlockRowwise(full, wr, local_grid, dims, F) ==
    LET at(c) == {k \in DOMAIN local_grid : SubSeq(local_grid[k], 1, 3) = c}
        lastAt(c) == CHOOSE k \in at(c) : \A o \in at(c) : o <= k
    IN  Result("ok",
               [c \in DOMAIN full |->
                   IF at(c) = {} THEN full[c]
                   ELSE SubSeq(local_grid[lastAt(c)], 4,
                               Len(local_grid[lastAt(c)]))],
               [c \in DOMAIN wr |-> wr[c] + Cardinality(at(c))])

\* One iteration of "for idx, local_grid in enumerate(all_descriptors_list)":
\* the box from the first and the last row, the reshape and transpose of
\* local_grid[:, 3:], and the assignment to the slice of descriptors_full.
AssignBlock(full, wr, local_grid, dims, F) ==
    IF Len(local_grid) = 0 THEN Result("IndexError", full, wr)
    ELSE
    LET n == Len(local_grid)
        first_x == local_grid[1][1]
        first_y == local_grid[1][2]
        first_z == local_grid[1][3]
        last_x == local_grid[n][1] + 1
        last_y == local_grid[n][2] + 1
        last_z == local_grid[n][3] + 1
        flat == Flatten([k \in 1..n |->
                            SubSeq(local_grid[k], 4, Len(local_grid[k]))])
        shape == ReshapeShape(Len(flat),
                              <<last_z - first_z, last_y - first_y,
                                last_x - first_x, F>>)
    IN  IF shape = <<>> THEN Result("ValueError", full, wr)
        ELSE
        LET sx == shape[3]
            sy == shape[2]
            sz == shape[1]
            dx == SliceLen(first_x, last_x, dims[1])
            dy == SliceLen(first_y, last_y, dims[2])
            dz == SliceLen(first_z, last_z, dims[3])
            inSlice(c) ==
                /\ first_x <= c[1] /\ c[1] < first_x + dx
                /\ first_y <= c[2] /\ c[2] < first_y + dy
                /\ first_z <= c[3] /\ c[3] < first_z + dz
            src(c) ==
                LET ix == IF sx = 1 THEN 0 ELSE c[1] - first_x
                    iy == IF sy = 1 THEN 0 ELSE c[2] - first_y
                    iz == IF sz = 1 THEN 0 ELSE c[3] - first_z
                    row == SourceRow(ix, iy, iz, sx, sy, sz)
                IN  SubSeq(flat, row * F + 1, (row + 1) * F)
        IN  IF \/ (sx # dx /\ sx # 1)
               \/ (sy # dy /\ sy # 1)
               \/ (sz # dz /\ sz # 1)
            THEN Result("ValueError", full, wr)
            ELSE Result("ok",
                        [c \in DOMAIN full |->
                            IF inSlice(c) THEN src(c) ELSE full[c]],
                        [c \in DOMAIN wr |->
                            IF inSlice(c) THEN wr[c] + 1 ELSE wr[c]])

\* the loop over all_descriptors_list, from rank idx on
RECURSIVE ReorderFrom(_, _, _, _, _)
ReorderFrom(list, idx, acc, dims, F) ==
    IF idx \notin DOMAIN list THEN acc
    ELSE LET a == AssignBlock(acc.full, acc.writes, list[idx], dims, F)
         IN  IF a.status # "ok" THEN a
             ELSE ReorderFrom(list, idx + 1, a, dims, F)

\* "Reorder the list": descriptors_full = np.zeros([nx, ny, nz, F]), then
\* the loop; the variant adds to the array an earlier call has left
ReorderListAccumulating(list, dims, F) ==
    LET res == ReorderFrom(list, 0,
                           Result("ok", [c \in Cells(dims) |-> Zeros(F)],
                                  [c \in Cells(dims) |-> 0]),
                           dims, F)
        kept(c) == DOMAIN descriptors_full = Cells(dims)
                      /\ Len(descriptors_full[c]) = F
    IN  IF res.status # "ok" THEN res
        ELSE Result("ok",
                    [c \in Cells(dims) |->
                        IF kept(c)
                        THEN [i \in 1..F |->
                                 descriptors_full[c][i] + res.full[c][i]]
                        ELSE res.full[c]],
                    res.writes)
ReorderList(list, dims, F) ==
    ReorderFrom(list, 0,
                Result("ok", [c \in Cells(dims) |-> Zeros(F)],
                       [c \in Cells(dims) |-> 0]),
                dims, F)

\* if descriptors_contain_xyz: return descriptors_full
\* else: return descriptors_full[:, :, :, 3:]
ReturnedAlwaysFull(full, contain_xyz) == full
Returned(full, contain_xyz) ==
    IF contain_xyz THEN full
    ELSE [c \in DOMAIN full |-> SubSeq(full[c], 4, Len(full[c]))]

Outcome(status, value) == [status |-> status, value |-> value]
(***************************************************************************)
(* The local blocks handed to gather_descriptors.  LAMMPS computes on a    *)
(* 1 x yprocs x zprocs processor grid; rank r holds the rows of its box,   *)
(* x fastest and z slowest, each row the grid coordinates followed by      *)
(* fingerprint_length values that are a known function of the cell.  One   *)
(* rank's block may be malformed: a row missing, a row twice, no rows, or  *)
(* the rows of another rank's box.                                         *)
(***************************************************************************)
Feature(x, y, z, c) == 1000 * c + 100 * x + 10 * y + z
Features(cell, F) == [c \in 1..F |-> Feature(cell[1], cell[2], cell[3], c)]
RowOf(cell, F) == cell \o Features(cell, F)

BoxRows(lo, hi, F) ==
    LET ex == hi[1] - lo[1]
        ey == hi[2] - lo[2]
        ez == hi[3] - lo[3]
    IN  [k \in 1..(ex * ey * ez) |->
            RowOf(<<lo[1] + ((k - 1) % ex),
                    lo[2] + (((k - 1) \div ex) % ey),
                    lo[3] + ((k - 1) \div (ex * ey))>>, F)]

RECURSIVE SortedSeq(_)
SortedSeq(S) ==
    IF S = {} THEN <<>>
    ELSE LET m == CHOOSE m \in S : \A o \in S : m <= o
         IN  <<m>> \o SortedSeq(S \ {m})

Edges(cuts, n) == <<0>> \o SortedSeq(cuts) \o <<n>>

Layouts(size, dims) ==
    UNION {
        {[yprocs |-> yp, ycuts |-> yc, zcuts |-> zc] :
            yc \in {S \in SUBSET (1..(dims[2] - 1)) : Cardinality(S) = yp - 1},
            zc \in {S \in SUBSET (1..(dims[3] - 1)) :
                       Cardinality(S) = (size \div yp) - 1}} :
        yp \in {d \in 1..size : size % d = 0}}

LayoutBlock(layout, dims, F, r) ==
    LET yb == Edges(layout.ycuts, dims[2])
        zb == Edges(layout.zcuts, dims[3])
        py == r % layout.yprocs
        pz == r \div layout.yprocs
    IN  BoxRows(<<0, yb[py + 1], zb[pz + 1]>>,
                <<dims[1], yb[py + 2], zb[pz + 2]>>, F)

Defects(size) ==
    {<<"none", 0>>}
        \cup ({"drop", "dup", "empty"} \X (0..(size - 1)))
        \cup (IF size > 1 THEN {"other"} \X (0..(size - 1)) ELSE {})

Malformed(rows, kind, other) ==
    CASE kind = "drop" ->
            IF Len(rows) >= 2
            THEN <<rows[1]>> \o SubSeq(rows, 3, Len(rows))
            ELSE <<>>
      [] kind = "dup" -> <<rows[1]>> \o rows
      [] kind = "empty" -> <<>>
      [] kind = "other" -> other
      [] OTHER -> rows

LocalBlocks(size, layout, dims, F, defect) ==
    [r \in 0..(size - 1) |->
        IF defect[1] # "none" /\ defect[2] = r
        THEN Malformed(LayoutBlock(layout, dims, F, r), defect[1],
                       LayoutBlock(layout, dims, F, (r + 1) % size))
        ELSE LayoutBlock(layout, dims, F, r)]

GatherInit ==
    /\ plan_in = [nx |-> 1, ny |-> 1, nz |-> 1, size |-> 1, mpi |-> FALSE,
                  use_y_splitting |-> 0, use_z_splitting |-> FALSE]
    /\ lammps_dict = PlanResult("pending", "none", 0, 0, <<>>, <<>>)
    /\ grid_dimensions \in (1..MaxNx) \X (1..MaxNy) \X (1..MaxNz)
    /\ fingerprint_length \in {1, MaxF}
    /\ descriptors_contain_xyz \in BOOLEAN
    /\ use_pickled_comm \in BOOLEAN
    /\ eager_send \in (IF use_pickled_comm THEN {FALSE} ELSE BOOLEAN)
    /\ \E size \in 1..MaxRanks :
         /\ \E layout \in Layouts(size, grid_dimensions) :
              \E defect \in Defects(size) :
                 snap_descriptors_np =
                     LocalBlocks(size, layout, grid_dimensions,
                                 fingerprint_length, defect)
         /\ pc = [r \in 0..(size - 1) |-> "start"]
         /\ gathered = [r \in 0..(size - 1) |-> <<>>]
         /\ all_descriptors_list = [r \in 0..(size - 1) |-> <<>>]
         /\ ret = [r \in 0..(size - 1) |-> Outcome("running", Dummy)]
         /\ call = [r \in 0..(size - 1) |-> "first"]
    /\ first_ret = <<>>
    /\ msgs = {}
    /\ sendcounts = <<>>
    /\ recv_i = 0
    /\ descriptors_full = Dummy
    /\ writes = [c \in Cells(grid_dimensions) |-> 0]
    /\ AcsdIdle

\* what no step of gather_descriptors changes
gather_inputs ==
    <<plan_vars, acsd_vars, grid_dimensions, fingerprint_length, descriptors_contain_xyz,
      use_pickled_comm, eager_send, snap_descriptors_np, call, first_ret>>

\* rank q has entered the barrier that rank r is in: q is in the same call
\* and past `before`, or in a later call
Entered(q, r, before) ==
    IF call[q] = call[r] THEN pc[q] \notin before ELSE call[q] = "second"

Goto(r, label) == pc' = [pc EXCEPT ![r] = label] /\ UNCHANGED gather_inputs

\* barrier() at entry: the rank arrives ...
BarrierArrive(r) ==
    /\ pc[r] = "start"
    /\ Goto(r, "barrier")
    /\ UNCHANGED <<gathered, msgs, sendcounts, all_descriptors_list, recv_i,
                   descriptors_full, writes, ret>>

\* ... and leaves once every rank has arrived; the variant does not wait
BarrierLeaveNoWait(r) ==
    /\ pc[r] = "barrier"
    /\ Goto(r, "gather")
    /\ UNCHANGED <<gathered, msgs, sendcounts, all_descriptors_list, recv_i,
                   descriptors_full, writes, ret>>
BarrierLeave(r) ==
    /\ pc[r] = "barrier"
    /\ \A q \in Ranks : Entered(q, r, {"start"})
    /\ Goto(r, "gather")
    /\ UNCHANGED <<gathered, msgs, sendcounts, all_descriptors_list, recv_i,
                   descriptors_full, writes, ret>>

\* comm.gather(.., root=0) on a rank other than 0: the block (pickled route)
\* or its number of rows is handed to MPI, and the call returns
GatherContribute(r) ==
    /\ r # 0
    /\ pc[r] = "gather"
    /\ gathered' = [gathered EXCEPT ![r] =
                       IF use_pickled_comm
                       THEN <<snap_descriptors_np[r]>>
                       ELSE <<Len(snap_descriptors_np[r])>>]
    /\ Goto(r, IF use_pickled_comm THEN "reorder" ELSE "send")
    /\ UNCHANGED <<msgs, sendcounts, all_descriptors_list, recv_i,
                   descriptors_full, writes, ret>>

\* comm.gather(.., root=0) on rank 0 returns when every rank contributed;
\* on the Send/Recv route rank 0 then prepares the buffers and takes its own
\* block without MPI
GatherRoot ==
    /\ pc[0] = "gather"
    /\ \A r \in Ranks \ {0} : gathered[r] # <<>>
    /\ IF use_pickled_comm
       THEN /\ all_descriptors_list' =
                  [r \in Ranks |-> IF r = 0 THEN snap_descriptors_np[0]
                                   ELSE gathered[r][1]]
            /\ Goto(0, "reorder")
            /\ UNCHANGED <<sendcounts, recv_i>>
       ELSE /\ sendcounts' =
                  [k \in 1..Cardinality(Ranks) |->
                      IF k = 1 THEN Len(snap_descriptors_np[0])
                      ELSE gathered[k - 1][1]]
            /\ all_descriptors_list' =
                  [r \in Ranks |-> IF r = 0 THEN snap_descriptors_np[0]
                                   ELSE <<>>]
            /\ recv_i' = 1
            /\ Goto(0, IF Cardinality(Ranks) > 1 THEN "recv" ELSE "closing")
    /\ gathered' = [r \in Ranks |-> <<>>]
    /\ UNCHANGED <<msgs, descriptors_full, writes, ret>>

\* comm.Send(snap_descriptors_np, dest=0, tag=get_rank()+100): the message
\* is posted ...
Send(r) ==
    /\ r # 0
    /\ pc[r] = "send"
    /\ msgs' = msgs \cup {[source |-> r, tag |-> SendTag(r),
                           buf |-> Flatten(snap_descriptors_np[r])]}
    /\ Goto(r, "sending")
    /\ UNCHANGED <<gathered, sendcounts, all_descriptors_list, recv_i,
                   descriptors_full, writes, ret>>

\* ... and the blocking Send returns when MPI has buffered the message or
\* rank 0 has received it
SendReturn(r) ==
    /\ pc[r] = "sending"
    /\ eager_send \/ ~(\E m \in msgs : m.source = r)
    /\ Goto(r, "closing")
    /\ UNCHANGED <<gathered, msgs, sendcounts, all_descriptors_list, recv_i,
                   descriptors_full, writes, ret>>

\* one iteration of the loop "for i in range(1, get_size())":
\* comm.Recv(all_descriptors_list[i], source=i, tag=100+i) and the reshape
\* to (sendcounts[i], raw_feature_length)
Recv ==
    /\ pc[0] = "recv"
    /\ \E m \in msgs :
         /\ m.source = recv_i
         /\ m.tag = RecvTag(recv_i)
         /\ Len(m.buf) = sendcounts[recv_i + 1] * raw_feature_length
         /\ msgs' = msgs \ {m}
         /\ all_descriptors_list' =
               [all_descriptors_list EXCEPT ![recv_i] =
                   Unflatten(m.buf, sendcounts[recv_i + 1],
                             raw_feature_length)]
    /\ recv_i' = recv_i + 1
    /\ Goto(0, IF recv_i + 1 < Cardinality(Ranks) THEN "recv" ELSE "closing")
    /\ UNCHANGED <<gathered, sendcounts, descriptors_full, writes, ret>>

\* the closing barrier() of the Send/Recv route
ClosingBarrierArrive(r) ==
    /\ pc[r] = "closing"
    /\ Goto(r, "barrier2")
    /\ UNCHANGED <<gathered, msgs, sendcounts, all_descriptors_list, recv_i,
                   descriptors_full, writes, ret>>

ClosingBarrierLeave(r) ==
    /\ pc[r] = "barrier2"
    /\ \A q \in Ranks :
          Entered(q, r, {"start", "barrier", "gather", "send", "sending",
                         "recv", "closing"})
    /\ Goto(r, "reorder")
    /\ UNCHANGED <<gathered, msgs, sendcounts, all_descriptors_list, recv_i,
                   descriptors_full, writes, ret>>

\* rank 0: "Reorder the list" and the return; an exception of the loop
\* leaves gather_descriptors without a return value
Reorder ==
    /\ pc[0] = "reorder"
    /\ LET res == ReorderList(all_descriptors_list, grid_dimensions,
                              fingerprint_length)
       IN  /\ descriptors_full' = res.full
           /\ writes' = res.writes
           /\ ret' = [ret EXCEPT ![0] =
                         IF res.status = "ok"
                         THEN Outcome("ok", Returned(res.full,
                                                     descriptors_contain_xyz))
                         ELSE Outcome(res.status, Dummy)]
    /\ Goto(0, "done")
    /\ UNCHANGED <<gathered, msgs, sendcounts, all_descriptors_list, recv_i>>

\* the other ranks return the dummy np.zeros([1, 1, 1, 1])
ReturnDummy(r) ==
    /\ r # 0
    /\ pc[r] = "reorder"
    /\ ret' = [ret EXCEPT ![r] =
                  Outcome("ok", Returned(Dummy, descriptors_contain_xyz))]
    /\ Goto(r, "done")
    /\ UNCHANGED <<gathered, msgs, sendcounts, all_descriptors_list, recv_i,
                   descriptors_full, writes>>

GatherNext ==
    \/ \E r \in Ranks : BarrierArrive(r)
    \/ \E r \in Ranks : BarrierLeave(r)
    \/ \E r \in Ranks : GatherContribute(r)
    \/ GatherRoot
    \/ \E r \in Ranks : Send(r)
    \/ \E r \in Ranks : SendReturn(r)
    \/ Recv
    \/ \E r \in Ranks : ClosingBarrierArrive(r)
    \/ \E r \in Ranks : ClosingBarrierLeave(r)
    \/ Reorder
    \/ \E r \in Ranks : ReturnDummy(r)

SpecGather == GatherInit /\ [][GatherNext]_vars

\* The calls that take the Send/Recv route (use_pickled_comm=False, the
\* default), for the largest one-column grid and the shortest rows: the
\* steps of the ranks depend on the blocks only through their numbers of
\* rows.  Every rank is a process that keeps running: a step that stays
\* possible is taken.
RawGatherInit ==
    /\ GatherInit
    /\ ~use_pickled_comm
    /\ grid_dimensions = <<1, MaxNy, MaxNz>>
    /\ fingerprint_length = 1
    /\ ~descriptors_contain_xyz
FairSpecRawGather ==
    RawGatherInit /\ [][GatherNext]_vars /\ WF_vars(GatherNext)

\* The caller calls gather_descriptors again with the same arguments, once
\* its first call has returned; rank 0 keeps the array it got.
CallAgain(r) ==
    /\ pc[r] = "done"
    /\ call[r] = "first"
    /\ ret[r].status = "ok"
    /\ call' = [call EXCEPT ![r] = "second"]
    /\ first_ret' = IF r = 0 THEN ret[0] ELSE first_ret
    /\ pc' = [pc EXCEPT ![r] = "start"]
    /\ ret' = [ret EXCEPT ![r] = Outcome("running", Dummy)]
    /\ UNCHANGED <<plan_vars, acsd_vars, grid_dimensions, fingerprint_length,
                   descriptors_contain_xyz, use_pickled_comm, eager_send,
                   snap_descriptors_np, gathered, msgs, sendcounts,
                   all_descriptors_list, recv_i, descriptors_full, writes>>

GatherTwiceNext ==
    \/ \E r \in Ranks : BarrierArrive(r)
    \/ \E r \in Ranks : BarrierLeave(r)
    \/ \E r \in Ranks : GatherContribute(r)
    \/ GatherRoot
    \/ \E r \in Ranks : Send(r)
    \/ \E r \in Ranks : SendReturn(r)
    \/ Recv
    \/ \E r \in Ranks : ClosingBarrierArrive(r)
    \/ \E r \in Ranks : ClosingBarrierLeave(r)
    \/ Reorder
    \/ \E r \in Ranks : ReturnDummy(r)
    \/ \E r \in Ranks : CallAgain(r)

SpecGatherTwice == GatherInit /\ [][GatherTwiceNext]_vars
(***************************************************************************)
(* Properties of gather_descriptors.                                       *)
(***************************************************************************)
NumRanks == Cardinality(Ranks)
RootDone == Ranks # {} /\ pc[0] = "done"
RootReturned == RootDone /\ ret[0].status = "ok"

\* the box a block declares by its first and its last row
DeclaredLo(block) == SubSeq(block[1], 1, 3)
DeclaredHi(block) ==
    <<block[Len(block)][1] + 1, block[Len(block)][2] + 1,
      block[Len(block)][3] + 1>>
DeclaredVolume(block) ==
    (DeclaredHi(block)[1] - DeclaredLo(block)[1])
        * (DeclaredHi(block)[2] - DeclaredLo(block)[2])
        * (DeclaredHi(block)[3] - DeclaredLo(block)[3])
DeclaredCells(block) ==
    {c \in Cells(grid_dimensions) :
        \A a \in 1..3 :
            DeclaredLo(block)[a] <= c[a] /\ c[a] < DeclaredHi(block)[a]}

\* every block enumerates an axis-aligned box x fastest and z slowest with
\* the known function in its feature columns, and the boxes tile the grid
WellFormedTiling ==
    /\ \A r \in Ranks :
          /\ Len(snap_descriptors_np[r]) > 0
          /\ snap_descriptors_np[r] =
                 BoxRows(DeclaredLo(snap_descriptors_np[r]),
                         DeclaredHi(snap_descriptors_np[r]),
                         fingerprint_length)
    /\ \A c \in Cells(grid_dimensions) :
          Cardinality({r \in Ranks :
                          c \in DeclaredCells(snap_descriptors_np[r])}) = 1

\* C1: when the per-rank blocks tile the grid, each enumerating its box x
\* fastest and z slowest with the known function of the cell in its feature
\* columns, rank 0 assembles an array that holds the function's value of
\* (x, y, z) at cell [x][y][z], for every cell of the grid.
C1_GatherRoundTrip ==
    (RootDone /\ WellFormedTiling) =>
        /\ ret[0].status = "ok"
        /\ DOMAIN descriptors_full = Cells(grid_dimensions)
        /\ \A c \in Cells(grid_dimensions) :
              descriptors_full[c] = Features(c, fingerprint_length)

C1_Witness ==
    /\ RootReturned
    /\ WellFormedTiling
    /\ NumRanks = 2
    /\ grid_dimensions = <<2, 2, 2>>
    /\ descriptors_full[<<1, 0, 1>>] = Features(<<1, 0, 1>>, fingerprint_length)
    /\ Len(snap_descriptors_np[1]) = 4

\* C3 (as claimed): whenever gather_descriptors returns on rank 0, every
\* cell of the grid was written by exactly one block.
C3_ReturnsOnlyFullyPopulated ==
    RootReturned => \A c \in Cells(grid_dimensions) : writes[c] = 1

\* C8 (as claimed): with descriptors_contain_xyz set the returned vector of
\* a cell is its three coordinates followed by its F feature values; with
\* the flag clear it is the F feature values.
C8_CoordinateColumnsFollowFlag ==
    (RootReturned /\ WellFormedTiling) =>
        \A c \in Cells(grid_dimensions) :
            ret[0].value[c] =
                IF descriptors_contain_xyz
                THEN c \o Features(c, fingerprint_length)
                ELSE Features(c, fingerprint_length)

\* C8 (amended): the three leading grid coordinates of every row are always
\* removed during assembly; with descriptors_contain_xyz set the returned
\* vector of a cell holds all F values of the assembled cell, with the flag
\* clear it holds them without the first three (F - 3 values).
C8_FlagStripsFirstThreeFeatures ==
    RootReturned =>
        /\ DOMAIN ret[0].value = Cells(grid_dimensions)
        /\ \A c \in Cells(grid_dimensions) :
              /\ ret[0].value[c] =
                    IF descriptors_contain_xyz
                    THEN descriptors_full[c]
                    ELSE SubSeq(descriptors_full[c], 4, fingerprint_length)
              /\ WellFormedTiling =>
                    descriptors_full[c] = Features(c, fingerprint_length)

C8_Witness ==
    /\ RootReturned
    /\ WellFormedTiling
    /\ NumRanks = 2
    /\ ~descriptors_contain_xyz
    /\ fingerprint_length = MaxF
    /\ \A c \in Cells(grid_dimensions) :
          ret[0].value[c] =
              SubSeq(Features(c, fingerprint_length), 4, fingerprint_length)

ReturnOf(blocks) ==
    LET res == ReorderList(blocks, grid_dimensions, fingerprint_length)
    IN  IF res.status = "ok"
        THEN Outcome("ok", Returned(res.full, descriptors_contain_xyz))
        ELSE Outcome(res.status, Dummy)

C13_SecondCallReturnsSame ==
    (RootDone /\ call[0] = "second") => ret[0] = first_ret

C13_Witness ==
    /\ RootReturned
    /\ call[0] = "second"
    /\ NumRanks = 2
    /\ ~use_pickled_comm
    /\ eager_send
    /\ WellFormedTiling
    /\ ret[0] = first_ret

RawRoute == Ranks # {} /\ ~use_pickled_comm
HasBegunToSend(r) ==
    r # 0 /\ pc[r] \in {"sending", "closing", "barrier2", "reorder", "done"}
SizeExchangeComplete ==
    /\ Len(sendcounts) = NumRanks
    /\ \A q \in Ranks : sendcounts[q + 1] = Len(snap_descriptors_np[q])

\* C18 (as claimed): on the Send/Recv route no rank has begun to send its
\* block before rank 0 holds the row counts of all ranks, nor before every
\* rank has reached the entry barrier.
C18_NoSendBeforeSizeExchange ==
    (RawRoute /\ \E r \in Ranks : HasBegunToSend(r)) =>
        /\ SizeExchangeComplete
        /\ \A q \in Ranks : pc[q] # "start"

\* C18 (amended): on the Send/Recv route no rank has begun to send its
\* block before every rank has reached the entry barrier, and rank 0
\* receives no block before it holds the row counts of all ranks.
C18_NoReceiveBeforeSizeExchange ==
    RawRoute =>
        /\ (\E r \in Ranks : HasBegunToSend(r)) =>
               \A q \in Ranks : pc[q] # "start"
        /\ (pc[0] = "recv" \/ recv_i > 1) => SizeExchangeComplete
        /\ \A r \in Ranks \ {0} :
               all_descriptors_list[r] # <<>> => SizeExchangeComplete

C18_Witness ==
    /\ RawRoute
    /\ NumRanks = 2
    /\ recv_i = 2
    /\ SizeExchangeComplete
    /\ Len(snap_descriptors_np[1]) > 0
    /\ all_descriptors_list[1] = snap_descriptors_np[1]

AllRanksDone == \A r \in Ranks : pc[r] = "done"

Array(shape, rows) == [shape |-> shape, rows |-> rows]

RECURSIVE Dot(_, _)
Dot(v1, v2) ==
    IF v1 = <<>> THEN 0 ELSE v1[1] * v2[1] + Dot(Tail(v1), Tail(v2))

\* calc_cosine_similarity: the quotient is kept as numerator and denominator;
\* for vectors of more than one entry den is the square of
\* norm(vector1) * norm(vector2).  A denominator 0 is numpy's nan or inf.
calc_cosine_similarity(vector1, vector2) ==
    IF Len(vector1) # Len(vector2)
    THEN [kind |-> "Exception", num |-> 0, den |-> 0]
    ELSE IF Len(vector1) = 1
    THEN [kind |-> "ratio",
          num |-> IF vector1[1] < vector2[1] THEN vector1[1] ELSE vector2[1],
          den |-> IF vector1[1] < vector2[1] THEN vector2[1] ELSE vector1[1]]
    ELSE [kind |-> "cosine", num |-> Dot(vector1, vector2),
          den |-> Dot(vector1, vector1) * Dot(vector2, vector2)]

\* lines 602-619: the 4-d arrays are flattened (and the descriptor vectors
\* lose their first three entries when they contain xyz); <<>> stands for
\* the Exception raised for an array that is neither 2-d nor 4-d.
FlatDescriptors(in) ==
    LET dim == in.descriptor_data.shape
        rows == in.descriptor_data.rows
    IN  IF Len(dim) = 4
        THEN IF in.descriptor_vectors_contain_xyz
             THEN <<[k \in DOMAIN rows |-> SubSeq(rows[k], 4, Len(rows[k]))]>>
             ELSE <<rows>>
        ELSE IF Len(dim) # 2 THEN <<>> ELSE <<rows>>

FlatLdos(in) ==
    LET dim == in.ldos_data.shape
    IN  IF Len(dim) = 4 THEN <<in.ldos_data.rows>>
        ELSE IF Len(dim) # 2 THEN <<>> ELSE <<in.ldos_data.rows>>

\* rng.choice(n, size=n, replace=False): a permutation of 0..n-1
Shuffles(n) ==
    {f \in [1..n -> 0..(n - 1)] : \A a, b \in 1..n : f[a] = f[b] => a = b}

\* whether x[k] raises IndexError (k is never negative here)
OutOfRange(x, k) == k >= Len(x)

\* the inner loop "for j in range(0, nr_points)" of outer iteration i:
\* whether one of its index expressions raises IndexError ...
InnerLoopFails(desc, ldos, pi, pj, i, nr) ==
    \/ OutOfRange(pi, i)
    \/ \E j \in 0..(nr - 1) :
          \/ OutOfRange(pj, j)
          \/ OutOfRange(ldos, pi[i + 1])
          \/ OutOfRange(ldos, pj[j + 1])

\* ... and the pairs it appends otherwise
InnerLoopPairs(desc, ldos, pi, pj, i, nr) ==
    [j \in 1..nr |->
        <<calc_cosine_similarity(desc[pi[i + 1] + 1], desc[pj[j] + 1]),
          calc_cosine_similarity(ldos[pi[i + 1] + 1], ldos[pj[j] + 1])>>]

\* the arguments (x1, y1, x2, y2) of distance_between_points, whose mean of
\* sqrt((x1-x2)^2 + (y1-y2)^2) is the ACSD; the variant measures from the
\* origin
Origin == [kind |-> "ratio", num |-> 0, den |-> 1]
DistancesFromOrigin(sim) ==
    [k \in DOMAIN sim |-> <<sim[k][1], sim[k][2], Origin, Origin>>]
Distances(sim) == [k \in DOMAIN sim |-> <<sim[k][1], sim[k][2], sim[k][1], sim[k][1]>>]

\* The value of a similarity: numpy divides without raising, a denominator
\* 0 gives nan (0/0; the entries of the arrays are not negative, and a
\* zero norm makes the dot product 0 as well).
IsNan(s) == s.den = 0

\* whether two similarities are the same number: num/den for a ratio and
\* num/sqrt(den) for a cosine, compared by their squares (num >= 0)
SameValue(a, b) ==
    LET d2(s) == IF s.kind = "ratio" THEN s.den * s.den ELSE s.den
    IN  a.num * a.num * d2(b) = b.num * b.num * d2(a)

\* np.sqrt((x1 - x2) * (x1 - x2) + (y1 - y2) * (y1 - y2)): nan when an
\* argument is nan, 0 when both differences are 0, positive otherwise
distance_between_points(x1, y1, x2, y2) ==
    IF IsNan(x1) \/ IsNan(y1) \/ IsNan(x2) \/ IsNan(y2) THEN "nan"
    ELSE IF SameValue(x1, x2) /\ SameValue(y1, y2) THEN "zero"
    ELSE "positive"

\* np.mean(distances) of lines 688-694
np_mean(args) ==
    LET d(k) == distance_between_points(args[k][1], args[k][2],
                                        args[k][3], args[k][4])
    IN  IF \E k \in DOMAIN args : d(k) = "nan" THEN "nan"
        ELSE IF \A k \in DOMAIN args : d(k) = "zero" THEN "zero"
        ELSE "positive"

\* the arrays handed to the calculation
DescriptorRow(k, w) == [c \in 1..w |-> ((k + c) % 3) + 1]
LdosRow(k, w) == [c \in 1..w |-> ((2 * k + c) % 3) + 1]

\* the array with its first vector replaced by zeros
WithZeroRow(a) ==
    Array(a.shape, [k \in DOMAIN a.rows |->
                       IF k = 1 THEN Zeros(Len(a.rows[k])) ELSE a.rows[k]])

DescriptorArrays ==
    LET proper ==
            UNION {{Array(<<n, 2>>, [k \in 1..n |-> DescriptorRow(k, 2)]),
                    Array(<<n, 1, 1, 5>>, [k \in 1..n |-> DescriptorRow(k, 5)]),
                    Array(<<n, 1, 2>>, [k \in 1..n |-> DescriptorRow(k, 2)])} :
                   n \in 1..MaxPoints}
    IN  proper \cup {WithZeroRow(a) : a \in {b \in proper : Len(b.shape) = 2}}

\* the targets: their own vectors, or the vectors of the descriptors
LdosArrays ==
    LET proper ==
            UNION {{Array(<<n, 2>>, [k \in 1..n |-> LdosRow(k, 2)]),
                    Array(<<1, n, 1, 2>>, [k \in 1..n |-> LdosRow(k, 2)]),
                    Array(<<n, 1, 2>>, [k \in 1..n |-> LdosRow(k, 2)]),
                    Array(<<n, 2>>, [k \in 1..n |-> DescriptorRow(k, 2)]),
                    Array(<<n, 1, 1, 5>>,
                          [k \in 1..n |-> DescriptorRow(k, 5)])} :
                   n \in 1..MaxPoints}
    IN  proper \cup {WithZeroRow(a) : a \in {b \in proper : Len(b.shape) = 2}}

AcsdInit ==
    /\ plan_in = [nx |-> 1, ny |-> 1, nz |-> 1, size |-> 1, mpi |-> FALSE,
                  use_y_splitting |-> 0, use_z_splitting |-> FALSE]
    /\ lammps_dict = PlanResult("pending", "none", 0, 0, <<>>, <<>>)
    /\ GatherIdle
    /\ acsd_in \in [descriptor_data : DescriptorArrays,
                    ldos_data : LdosArrays,
                    acsd_points : 1..MaxSample,
                    descriptor_vectors_contain_xyz : BOOLEAN]
    /\ points_i = <<>>
    /\ loop_i = 0
    /\ similarity_array = <<>>
    /\ acsd_ret = [status |-> "start", distances |-> <<>>, acsd |-> "none"]

AcsdFrame == UNCHANGED <<plan_vars, gather_vars, acsd_in>>

\* lines 602-626: the shape checks and the draw of points_i
Prepare ==
    /\ acsd_ret.status = "start"
    /\ IF FlatDescriptors(acsd_in) = <<>> \/ FlatLdos(acsd_in) = <<>>
       THEN /\ acsd_ret' = [status |-> "Exception", distances |-> <<>>,
                             acsd |-> "none"]
            /\ UNCHANGED points_i
       ELSE /\ points_i' \in Shuffles(Len(FlatDescriptors(acsd_in)[1]))
            /\ acsd_ret' = [status |-> "loop", distances |-> <<>>,
                             acsd |-> "none"]
    /\ UNCHANGED <<loop_i, similarity_array>>
    /\ AcsdFrame

\* lines 627-642: one iteration of "for i in range(0, nr_points)", with its
\* draw of points_j and the whole inner loop
OuterIteration ==
    /\ acsd_ret.status = "loop"
    /\ loop_i < acsd_in.acsd_points
    /\ \E points_j \in Shuffles(Len(FlatDescriptors(acsd_in)[1])) :
         LET desc == FlatDescriptors(acsd_in)[1]
             ldos == FlatLdos(acsd_in)[1]
             nr == acsd_in.acsd_points
         IN  IF InnerLoopFails(desc, ldos, points_i, points_j, loop_i, nr)
             THEN /\ acsd_ret' = [status |-> "IndexError", distances |-> <<>>,
                                   acsd |-> "none"]
                  /\ UNCHANGED <<loop_i, similarity_array>>
             ELSE /\ similarity_array' =
                        similarity_array
                            \o InnerLoopPairs(desc, ldos, points_i, points_j,
                                              loop_i, nr)
                  /\ loop_i' = loop_i + 1
                  /\ UNCHANGED acsd_ret
    /\ UNCHANGED points_i
    /\ AcsdFrame

\* lines 687-694: the distances of the pairs and their mean
calculate_acsd ==
    /\ acsd_ret.status = "loop"
    /\ loop_i = acsd_in.acsd_points
    /\ acsd_ret' = [status |-> "ok",
                    distances |-> Distances(similarity_array),
                    acsd |-> np_mean(Distances(similarity_array))]
    /\ UNCHANGED <<points_i, loop_i, similarity_array>>
    /\ AcsdFrame

AcsdNext == Prepare \/ OuterIteration \/ calculate_acsd

SpecAcsd == AcsdInit /\ [][AcsdNext]_vars

(***************************************************************************)
(* Properties of the ACSD calculation.                                     *)
(***************************************************************************)
AcsdEnded == acsd_ret.status \in {"ok", "Exception", "IndexError"}

RECURSIVE LeadingProduct(_)
LeadingProduct(shape) ==
    IF Len(shape) <= 1 THEN 1 ELSE shape[1] * LeadingProduct(Tail(shape))

\* C10 (as claimed): every call whose descriptor and target inputs have
\* different numbers of rows after flattening fails.
C10_RowCountMismatchFails ==
    (AcsdEnded /\ LeadingProduct(acsd_in.descriptor_data.shape)
                     # LeadingProduct(acsd_in.ldos_data.shape)) =>
        acsd_ret.status # "ok"

\* C11 (as claimed): whenever a sampled pair contains a vector of zero norm,
\* so that a similarity divides by zero, the call fails instead of returning
\* a mean.  (The similarity of vectors of two or more entries divides by
\* zero exactly when one of the two has norm zero.)
C11_ZeroNormFails ==
    (AcsdEnded /\ \E k \in DOMAIN similarity_array :
                     \/ IsNan(similarity_array[k][1])
                     \/ IsNan(similarity_array[k][2])) =>
        acsd_ret.status # "ok"

\* the vectors the similarities are calculated of
ComparedDescriptors == FlatDescriptors(acsd_in)[1]
ComparedLdos == FlatLdos(acsd_in)[1]
Degenerate(rows) == \E k \in DOMAIN rows : Dot(rows[k], rows[k]) = 0
AcsdReturned == acsd_ret.status = "ok"

\* C14 (as claimed): when the rows of descriptor_data equal the rows of
\* ldos_data and no vector is degenerate, every sampled pair has the same
\* similarity in both spaces and the ACSD returned is 0.
C14_EqualRowsGiveZero ==
    (AcsdReturned
        /\ acsd_in.descriptor_data.rows = acsd_in.ldos_data.rows
        /\ ~Degenerate(ComparedDescriptors) /\ ~Degenerate(ComparedLdos)) =>
        /\ \A k \in DOMAIN similarity_array :
              SameValue(similarity_array[k][1], similarity_array[k][2])
        /\ acsd_ret.acsd = "zero"

\* C14 (amended): when the descriptor vectors as compared (4-d data
\* flattened, and without their first three entries when
\* descriptor_vectors_contain_xyz is set) equal the target vectors and no
\* vector is degenerate, every sampled pair has the same similarity in both
\* spaces and every ACSD returned is 0, whatever indices are sampled.
C14_EqualComparedRowsGiveZero ==
    (AcsdReturned
        /\ ComparedDescriptors = ComparedLdos
        /\ ~Degenerate(ComparedDescriptors)) =>
        /\ Len(similarity_array) = acsd_in.acsd_points * acsd_in.acsd_points
        /\ \A k \in DOMAIN similarity_array :
              SameValue(similarity_array[k][1], similarity_array[k][2])
        /\ acsd_ret.acsd = "zero"

C14_Witness ==
    /\ AcsdReturned
    /\ ComparedDescriptors = ComparedLdos
    /\ ~Degenerate(ComparedDescriptors)
    /\ Len(acsd_in.descriptor_data.shape) = 4
    /\ acsd_in.descriptor_vectors_contain_xyz
    /\ acsd_in.acsd_points = 2
    /\ \E k \in DOMAIN similarity_array :
          similarity_array[k][1].num * similarity_array[k][1].num
              # similarity_array[k][1].den
    /\ acsd_ret.acsd = "zero"
====
